---- MODULE Spec2Model ----
(***************************************************************************)
(* A model of rnote's stroke abstraction (src/strokes/strokestyle.rs) and  *)
(* of its UnitEntry widget (src/ui/unitentry.rs).                          *)
(*                                                                         *)
(* f64 coordinates are fixed-point integers counting 1/Scale of a unit.    *)
(* Four specifications share the module: SpecStroke (the StrokeBehaviour   *)
(* trait and the StrokeStyle enum), SpecInput (InputData), SpecValid       *)
(* (Element::validation_data) and SpecUnit (UnitEntry).                    *)
(***************************************************************************)
EXTENDS Integers, Sequences, FiniteSets, TLC

VARIABLES
    stroke,     \* the StrokeStyle value: its variant tag and that variant's state
    last,       \* the last trait call: its name, arguments, result, and the calls it made
    edits,      \* number of translate/resize calls made so far
    inputdata,  \* an InputData value
    ilast,      \* the last InputData call and the value it was applied to
    vd,         \* the running Element::validation_data call
    ue,         \* UnitEntry: the value, unit and dpi cells, the spinner and the dropdown
    stack,      \* UnitEntry: notify handlers still to run, innermost first
    chain       \* UnitEntry: the call that started the running handler chain, and its length

vars == <<stroke, last, edits, inputdata, ilast, vd, ue, stack, chain>>

(***************************************************************************)
(* Bounds of the model.                                                    *)
(***************************************************************************)
Scale == 2          \* fixed-point steps per unit
MaxFrags == 2       \* longest fragment sequence a stroke generates
MaxEdits == 1       \* translate/resize calls per run

Min(a, b) == IF a <= b THEN a ELSE b
Max(a, b) == IF a >= b THEN a ELSE b
SeqsUpTo(S, n) == UNION {[1..k -> S] : k \in 0..n}

(***************************************************************************)
(* Option and Result.                                                      *)
(***************************************************************************)
None == [some |-> FALSE]
Some(v) == [some |-> TRUE, val |-> v]
Ok(v) == [ok |-> TRUE, val |-> v]
Err(e) == [ok |-> FALSE, err |-> e]

(***************************************************************************)
(* p2d::bounding_volume::AABB and the bounding box algebra.                *)
(***************************************************************************)
AABB(mins, maxs) == [mins |-> mins, maxs |-> maxs]

\* BoundingVolume::merge: the smallest box holding both.
merge(a, b) ==
    AABB(<<Min(a.mins[1], b.mins[1]), Min(a.mins[2], b.mins[2])>>,
         <<Max(a.maxs[1], b.maxs[1]), Max(a.maxs[2], b.maxs[2])>>)

floor(x) == (x \div Scale) * Scale
ceil(x) == -floor(-x)

\* geometry::aabb_ceil: the box grown outward to whole units.
aabb_ceil(a) ==
    AABB(<<floor(a.mins[1]), floor(a.mins[2])>>, <<ceil(a.maxs[1]), ceil(a.maxs[2])>>)

contains(a, b) ==
    /\ a.mins[1] <= b.mins[1] /\ a.mins[2] <= b.mins[2]
    /\ b.maxs[1] <= a.maxs[1] /\ b.maxs[2] <= a.maxs[2]

translate_box(a, o) ==
    AABB(<<a.mins[1] + o[1], a.mins[2] + o[2]>>, <<a.maxs[1] + o[1], a.maxs[2] + o[2]>>)

(***************************************************************************)
(* render::Svg, and the strokes' content.  A variant's content is what its *)
(* gen_svgs makes of it at a zero offset: an error, or a sequence of       *)
(* fragments.                                                              *)
(***************************************************************************)
Svg(data, bounds) == [svg_data |-> data, bounds |-> bounds]

Frags ==
    { Svg("a", AABB(<<1, 1>>, <<3, 2>>)),
      Svg("b", AABB(<<-1, 2>>, <<1, 5>>)) }

\* What a variant holds: whether it can be serialized, and the fragments it makes.
Content(fails, frags) == [fails |-> fails, frags |-> frags]
Unsupported == [failed |-> "unsupported content"]
Contents == {Content(TRUE, <<>>)} \cup {Content(FALSE, f) : f \in SeqsUpTo(Frags, MaxFrags)}

NewBox == AABB(<<0, 0>>, <<4, 4>>)
Boxes == { NewBox, AABB(<<2, -1>>, <<2, 5>>) }
Offsets == { <<0, 0>>, <<1, -2>> }
Zooms == {1, 3}
Renderers == {"ok", "fails"}

Variants == {"MarkerStroke", "BrushStroke", "ShapeStroke", "VectorImage", "BitmapImage"}

(***************************************************************************)
(* The five variants (MarkerStroke, BrushStroke, ShapeStroke, VectorImage, *)
(* BitmapImage) implement StrokeBehaviour in modules of their own.  Each   *)
(* holds its content and a cached bounds box.                              *)
(***************************************************************************)
Variant(bounds, content) == [bounds |-> bounds, content |-> content]

Variant_bounds(v) == v.bounds

Variant_set_bounds(v, bounds) == [v EXCEPT !.bounds = bounds]

translate_frags(f, offset) ==
    [i \in 1..Len(f) |-> Svg(f[i].svg_data, translate_box(f[i].bounds, offset))]

Variant_translate(v, offset) ==
    Variant(translate_box(v.bounds, offset),
            Content(v.content.fails, translate_frags(v.content.frags, offset)))

\* One coordinate carried from the old bounds to the new; a zero extent scales by 1.
scale_coord(x, omin, omax, nmin, nmax) ==
    IF omax = omin THEN nmin + (x - omin)
    ELSE nmin + ((x - omin) * (nmax - nmin)) \div (omax - omin)

scale_box(a, old, new) ==
    AABB(<<scale_coord(a.mins[1], old.mins[1], old.maxs[1], new.mins[1], new.maxs[1]),
           scale_coord(a.mins[2], old.mins[2], old.maxs[2], new.mins[2], new.maxs[2])>>,
         <<scale_coord(a.maxs[1], old.mins[1], old.maxs[1], new.mins[1], new.maxs[1]),
           scale_coord(a.maxs[2], old.mins[2], old.maxs[2], new.mins[2], new.maxs[2])>>)

Variant_resize(v, new_bounds) ==
    Variant(new_bounds,
            Content(v.content.fails,
                    [i \in 1..Len(v.content.frags) |->
                       Svg(v.content.frags[i].svg_data,
                           scale_box(v.content.frags[i].bounds, v.bounds, new_bounds))]))

Variant_gen_svgs(v, offset) ==
    IF v.content.fails THEN Err(Unsupported)
    ELSE Ok(translate_frags(v.content.frags, offset))

(***************************************************************************)
(* impl StrokeBehaviour for StrokeStyle: one match arm per variant.  A     *)
(* stroke is [tag, inner]; a call answers with its result (ret), the       *)
(* stroke afterwards (self, for &mut self) and the variant call it made    *)
(* (fwd: the receiving arm, the method and the argument).                  *)
(***************************************************************************)
StrokeStyle(tag, inner) == [tag |-> tag, inner |-> inner]
NoArg == <<>>
Fwd(recv, op, arg) == [recv |-> recv, op |-> op, arg |-> arg]

bounds_arm(t, s) ==
    [ret |-> Variant_bounds(s.inner), fwd |-> <<Fwd(t, "bounds", NoArg)>>]

StrokeStyle_bounds(s) ==
    CASE s.tag = "MarkerStroke" -> bounds_arm("MarkerStroke", s)
      [] s.tag = "BrushStroke" -> bounds_arm("BrushStroke", s)
      [] s.tag = "ShapeStroke" -> bounds_arm("ShapeStroke", s)
      [] s.tag = "VectorImage" -> bounds_arm("VectorImage", s)
      [] s.tag = "BitmapImage" -> bounds_arm("BitmapImage", s)

set_bounds_arm(t, s, bounds) ==
    [self |-> StrokeStyle(t, Variant_set_bounds(s.inner, bounds)),
     fwd |-> <<Fwd(t, "set_bounds", bounds)>>]

StrokeStyle_set_bounds(s, bounds) ==
    CASE s.tag = "MarkerStroke" -> set_bounds_arm("MarkerStroke", s, bounds)
      [] s.tag = "BrushStroke" -> set_bounds_arm("BrushStroke", s, bounds)
      [] s.tag = "ShapeStroke" -> set_bounds_arm("ShapeStroke", s, bounds)
      [] s.tag = "VectorImage" -> set_bounds_arm("VectorImage", s, bounds)
      [] s.tag = "BitmapImage" -> set_bounds_arm("BitmapImage", s, bounds)

translate_arm(t, s, offset) ==
    [self |-> StrokeStyle(t, Variant_translate(s.inner, offset)),
     fwd |-> <<Fwd(t, "translate", offset)>>]

\* translate with an arm that forwards nothing.
StrokeStyle_translate_empty_arm(s, offset) ==
    CASE s.tag = "MarkerStroke" -> translate_arm("MarkerStroke", s, offset)
      [] s.tag = "BrushStroke" -> translate_arm("BrushStroke", s, offset)
      [] s.tag = "ShapeStroke" -> translate_arm("ShapeStroke", s, offset)
      [] s.tag = "VectorImage" -> [self |-> s, fwd |-> <<>>]
      [] s.tag = "BitmapImage" -> translate_arm("BitmapImage", s, offset)

StrokeStyle_translate(s, offset) ==
    CASE s.tag = "MarkerStroke" -> translate_arm("MarkerStroke", s, offset)
      [] s.tag = "BrushStroke" -> translate_arm("BrushStroke", s, offset)
      [] s.tag = "ShapeStroke" -> translate_arm("ShapeStroke", s, offset)
      [] s.tag = "VectorImage" -> translate_arm("VectorImage", s, offset)
      [] s.tag = "BitmapImage" -> translate_arm("BitmapImage", s, offset)

resize_arm(t, s, new_bounds) ==
    [self |-> StrokeStyle(t, Variant_resize(s.inner, new_bounds)),
     fwd |-> <<Fwd(t, "resize", new_bounds)>>]

StrokeStyle_resize(s, new_bounds) ==
    CASE s.tag = "MarkerStroke" -> resize_arm("MarkerStroke", s, new_bounds)
      [] s.tag = "BrushStroke" -> resize_arm("BrushStroke", s, new_bounds)
      [] s.tag = "ShapeStroke" -> resize_arm("ShapeStroke", s, new_bounds)
      [] s.tag = "VectorImage" -> resize_arm("VectorImage", s, new_bounds)
      [] s.tag = "BitmapImage" -> resize_arm("BitmapImage", s, new_bounds)

gen_svgs_arm(t, s, offset) ==
    [ret |-> Variant_gen_svgs(s.inner, offset), fwd |-> <<Fwd(t, "gen_svgs", offset)>>]

StrokeStyle_gen_svgs(s, offset) ==
    CASE s.tag = "MarkerStroke" -> gen_svgs_arm("MarkerStroke", s, offset)
      [] s.tag = "BrushStroke" -> gen_svgs_arm("BrushStroke", s, offset)
      [] s.tag = "ShapeStroke" -> gen_svgs_arm("ShapeStroke", s, offset)
      [] s.tag = "VectorImage" -> gen_svgs_arm("VectorImage", s, offset)
      [] s.tag = "BitmapImage" -> gen_svgs_arm("BitmapImage", s, offset)

\* impl Default for StrokeStyle
StrokeStyle_default ==
    StrokeStyle("MarkerStroke", Variant(AABB(<<0, 0>>, <<0, 0>>), Content(FALSE, <<>>)))

(***************************************************************************)
(* The trait's provided methods.                                           *)
(***************************************************************************)
\* The fold of gen_bounds: new_bounds starts as the first fragment's bounds and
\* takes in, in order, the fragments from position i on.
RECURSIVE merge_rest(_, _, _)
merge_rest(svgs, i, new_bounds) ==
    IF i > Len(svgs) THEN new_bounds
    ELSE merge_rest(svgs, i + 1, merge(new_bounds, svgs[i].bounds))

\* gen_bounds without its fold: the first fragment's bounds alone.
gen_bounds_first_only(s) ==
    LET g == StrokeStyle_gen_svgs(s, <<0, 0>>) IN
    [ret |-> IF g.ret.ok /\ Len(g.ret.val) > 0
             THEN Some(aabb_ceil(g.ret.val[1].bounds))
             ELSE None,
     fwd |-> g.fwd]

gen_bounds(s) ==
    LET g == StrokeStyle_gen_svgs(s, <<0, 0>>) IN
    [ret |-> IF g.ret.ok /\ Len(g.ret.val) > 0
             THEN Some(aabb_ceil(merge_rest(g.ret.val, 2, g.ret.val[1].bounds)))
             ELSE None,
     fwd |-> g.fwd]

\* compose::wrap_svg: the payload made a document of its own.
wrap_svg(payload, content_box, viewport_box, standalone, embed_styles) ==
    [wrapped |-> payload, content_box |-> content_box, viewport_box |-> viewport_box,
     standalone |-> standalone, embed_styles |-> embed_styles]

BackendError == [failed |-> "backend"]

\* render::Renderer::gen_image: the backend, which rasterizes or fails.
Renderer_gen_image(renderer, zoom, svgs, bounds) ==
    IF renderer = "ok" THEN Ok([image |-> svgs, zoom |-> zoom, bounds |-> bounds])
    ELSE Err(BackendError)

\* The self.bounds() calls of gen_image: two per fragment, one for the backend.
RECURSIVE bounds_calls(_, _)
bounds_calls(s, n) ==
    IF n = 0 THEN <<>> ELSE StrokeStyle_bounds(s).fwd \o bounds_calls(s, n - 1)

\* gen_image with gen_svgs' error swallowed: the backend is given no fragments.
gen_image_swallows_error(s, zoom, renderer) ==
    LET g == StrokeStyle_gen_svgs(s, <<0, 0>>)
        svgs == IF g.ret.ok THEN g.ret.val ELSE <<>>
        b == StrokeStyle_bounds(s).ret
        wrapped == [i \in 1..Len(svgs) |->
                      Svg(wrap_svg(svgs[i].svg_data, Some(b), Some(b), TRUE, FALSE),
                          svgs[i].bounds)]
    IN  [ret |-> Renderer_gen_image(renderer, zoom, wrapped, b),
         fwd |-> g.fwd \o bounds_calls(s, 2 * Len(svgs) + 1),
         wraps |-> [i \in 1..Len(svgs) |-> <<svgs[i].svg_data, Some(b), Some(b), TRUE, FALSE>>],
         renders |-> <<[zoom |-> zoom, svgs |-> wrapped, bounds |-> b]>>]

\* gen_image with freshly generated bounds in place of the cached bounds().
gen_image_fresh_bounds(s, zoom, renderer) ==
    LET g == StrokeStyle_gen_svgs(s, <<0, 0>>)
    IN  IF ~g.ret.ok
        THEN [ret |-> Err(g.ret.err), fwd |-> g.fwd, wraps |-> <<>>, renders |-> <<>>]
        ELSE LET svgs == g.ret.val
                 fresh == gen_bounds(s).ret
                 b == IF fresh.some THEN fresh.val ELSE StrokeStyle_bounds(s).ret
                 wrapped == [i \in 1..Len(svgs) |->
                               Svg(wrap_svg(svgs[i].svg_data, Some(b), Some(b), TRUE, FALSE),
                                   svgs[i].bounds)]
             IN  [ret |-> Renderer_gen_image(renderer, zoom, wrapped, b),
                  fwd |-> g.fwd \o bounds_calls(s, 2 * Len(svgs) + 1),
                  wraps |-> [i \in 1..Len(svgs) |->
                               <<svgs[i].svg_data, Some(b), Some(b), TRUE, FALSE>>],
                  renders |-> <<[zoom |-> zoom, svgs |-> wrapped, bounds |-> b]>>]

gen_image(s, zoom, renderer) ==
    LET offset == <<0, 0>>
        g == StrokeStyle_gen_svgs(s, offset)
    IN  IF ~g.ret.ok
        THEN [ret |-> Err(g.ret.err), fwd |-> g.fwd, wraps |-> <<>>, renders |-> <<>>]
        ELSE LET svgs == g.ret.val
                 b == StrokeStyle_bounds(s).ret
                 wraps == [i \in 1..Len(svgs) |->
                             <<svgs[i].svg_data, Some(b), Some(b), TRUE, FALSE>>]
                 wrapped == [i \in 1..Len(svgs) |->
                               Svg(wrap_svg(svgs[i].svg_data, Some(b), Some(b), TRUE, FALSE),
                                   svgs[i].bounds)]
             IN  [ret |-> Renderer_gen_image(renderer, zoom, wrapped, b),
                  fwd |-> g.fwd \o bounds_calls(s, 2 * Len(svgs) + 1),
                  wraps |-> wraps,
                  renders |-> <<[zoom |-> zoom, svgs |-> wrapped, bounds |-> b]>>]

(***************************************************************************)
(* SpecStroke: a caller holding one stroke and calling the trait on it.    *)
(***************************************************************************)
Call(op, arg, ret, fwd, wraps, renders) ==
    [op |-> op, arg |-> arg, ret |-> ret, fwd |-> fwd, wraps |-> wraps, renders |-> renders]

Others_Stroke == UNCHANGED <<inputdata, ilast, vd, ue, stack, chain>>

BoundsCall ==
    /\ LET r == StrokeStyle_bounds(stroke) IN
         last' = Call("bounds", NoArg, r.ret, r.fwd, <<>>, <<>>)
    /\ UNCHANGED <<stroke, edits>>
    /\ Others_Stroke

SetBounds ==
    /\ \E bounds \in Boxes :
         LET r == StrokeStyle_set_bounds(stroke, bounds) IN
         /\ stroke' = r.self
         /\ last' = Call("set_bounds", bounds, NoArg, r.fwd, <<>>, <<>>)
    /\ UNCHANGED edits
    /\ Others_Stroke

Translate ==
    /\ edits < MaxEdits
    /\ \E offset \in Offsets :
         LET r == StrokeStyle_translate(stroke, offset) IN
         /\ stroke' = r.self
         /\ last' = Call("translate", offset, NoArg, r.fwd, <<>>, <<>>)
    /\ edits' = edits + 1
    /\ Others_Stroke

Resize ==
    /\ edits < MaxEdits
    /\ \E new_bounds \in Boxes :
         LET r == StrokeStyle_resize(stroke, new_bounds) IN
         /\ stroke' = r.self
         /\ last' = Call("resize", new_bounds, NoArg, r.fwd, <<>>, <<>>)
    /\ edits' = edits + 1
    /\ Others_Stroke

GenSvgs ==
    /\ \E offset \in Offsets :
         LET r == StrokeStyle_gen_svgs(stroke, offset) IN
         last' = Call("gen_svgs", offset, r.ret, r.fwd, <<>>, <<>>)
    /\ UNCHANGED <<stroke, edits>>
    /\ Others_Stroke

\* gen_bounds as a method that stores what it computes.
GenBounds_refreshes_cache ==
    /\ LET r == gen_bounds(stroke) IN
         /\ last' = Call("gen_bounds", NoArg, r.ret, r.fwd, <<>>, <<>>)
         /\ stroke' = IF r.ret.some THEN StrokeStyle_set_bounds(stroke, r.ret.val).self
                      ELSE stroke
    /\ UNCHANGED edits
    /\ Others_Stroke

GenBounds ==
    /\ LET r == gen_bounds(stroke) IN
         last' = Call("gen_bounds", NoArg, r.ret, r.fwd, <<>>, <<>>)
    /\ UNCHANGED <<stroke, edits>>
    /\ Others_Stroke

GenImage ==
    /\ \E zoom \in Zooms, renderer \in Renderers :
         LET r == gen_image(stroke, zoom, renderer) IN
         last' = Call("gen_image", <<zoom, renderer>>, r.ret, r.fwd, r.wraps, r.renders)
    /\ UNCHANGED <<stroke, edits>>
    /\ Others_Stroke

NextStroke ==
    \/ BoundsCall
    \/ SetBounds
    \/ Translate
    \/ Resize
    \/ GenSvgs
    \/ GenBounds
    \/ GenImage

(***************************************************************************)
(* f64 as InputData uses it: a finite number (counted in tenths), an       *)
(* infinity, or NaN.  Every comparison with NaN is false.                  *)
(***************************************************************************)
Fin(x) == [kind |-> "fin", v |-> x]
Inf(sign) == [kind |-> "inf", v |-> sign]
NaN == [kind |-> "nan", v |-> 0]

f64_lt(a, b) ==
    /\ a.kind # "nan" /\ b.kind # "nan"
    /\ CASE a.kind = "fin" /\ b.kind = "fin" -> a.v < b.v
         [] a.kind = "inf" /\ b.kind = "fin" -> a.v < 0
         [] a.kind = "fin" /\ b.kind = "inf" -> b.v > 0
         [] a.kind = "inf" /\ b.kind = "inf" -> a.v < b.v

f64_gt(a, b) == f64_lt(b, a)

\* f64::clamp: min if self < min, max if self > max, else self (NaN stays NaN).
f64_clamp(x, min, max) ==
    LET x1 == IF f64_lt(x, min) THEN min ELSE x
    IN  IF f64_gt(x1, max) THEN max ELSE x1

PRESSURE_DEFAULT == 5    \* 0.5
PRESSURE_MIN == 0        \* 0.0
PRESSURE_MAX == 10       \* 1.0

InputData(pos, pressure) == [pos |-> pos, pressure |-> pressure]

InputData_default == InputData(<<0, 0>>, Fin(PRESSURE_DEFAULT))

InputData_set_pos(self, pos) == [self EXCEPT !.pos = pos]

InputData_set_pressure(self, pressure) ==
    [self EXCEPT !.pressure = f64_clamp(pressure, Fin(PRESSURE_MIN), Fin(PRESSURE_MAX))]

InputData_new(pos, pressure) ==
    InputData_set_pressure(InputData_set_pos(InputData_default, pos), pressure)

(***************************************************************************)
(* SpecInput: a caller constructing an InputData and calling its setters.  *)
(***************************************************************************)
Positions == { <<0, 0>>, <<10, 0>>, <<-7, 25>> }
Pressures == { Fin(-3), Fin(0), Fin(5), Fin(10), Fin(17), Inf(1), Inf(-1), NaN }

ICall(op, arg, pre) == [op |-> op, arg |-> arg, pre |-> pre]

Others_Input == UNCHANGED <<stroke, last, edits, vd, ue, stack, chain>>

New ==
    /\ \E pos \in Positions, pressure \in Pressures :
         /\ inputdata' = InputData_new(pos, pressure)
         /\ ilast' = ICall("new", <<pos, pressure>>, inputdata)
    /\ Others_Input

SetPos ==
    /\ \E pos \in Positions :
         /\ inputdata' = InputData_set_pos(inputdata, pos)
         /\ ilast' = ICall("set_pos", pos, inputdata)
    /\ Others_Input

SetPressure ==
    /\ \E pressure \in Pressures :
         /\ inputdata' = InputData_set_pressure(inputdata, pressure)
         /\ ilast' = ICall("set_pressure", pressure, inputdata)
    /\ Others_Input

NextInput ==
    \/ New
    \/ SetPos
    \/ SetPressure

(***************************************************************************)
(* Element::validation_data.  The random source is a generator whose state *)
(* the caller's thread holds; Uniform::from(lo..=hi).sample draws lo..hi   *)
(* from it and advances it.  vd is the call: its position (pc), the        *)
(* generator (rng), the bounds given, the loop's range 0..=n, its next     *)
(* index i and the entries pushed so far.                                  *)
(***************************************************************************)
RngMod == 63        \* number of generator states
MaxEntriesSample == 20

rng_next(r) == (r * 5 + 3) % RngMod

\* Uniform::from(lo..=hi).sample(rng): the value drawn.
sample(r, lo, hi) == lo + (r % (hi - lo + 1))

Element(inputdata_) == [inputdata |-> inputdata_]

ValidationBounds == Boxes

Others_Valid == UNCHANGED <<stroke, last, edits, inputdata, ilast, ue, stack, chain>>

\* Lines 210-218: the distributions, the empty vector, and the loop's range.
validation_data_begin(v, bounds) ==
    [pc |-> "loop", rng |-> rng_next(v.rng), bounds |-> bounds,
     n |-> sample(v.rng, 0, MaxEntriesSample), i |-> 0, data_entries |-> <<>>]

\* Lines 218-223: one iteration of for _i in 0..=n.
validation_data_push(v) ==
    LET r1 == v.rng
        r2 == rng_next(r1)
        r3 == rng_next(r2)
        x == sample(r1, v.bounds.mins[1], v.bounds.maxs[1])
        y == sample(r2, v.bounds.mins[2], v.bounds.maxs[2])
        p == sample(r3, PRESSURE_MIN, PRESSURE_MAX)
    IN  [v EXCEPT !.rng = rng_next(r3), !.i = v.i + 1,
                  !.data_entries = Append(v.data_entries, Element(InputData_new(<<x, y>>, Fin(p))))]

loop_continues(v) == v.i <= v.n

ValidationDataCall ==
    /\ vd.pc \in {"idle", "done"}
    /\ \E bounds \in ValidationBounds : vd' = validation_data_begin(vd, bounds)
    /\ Others_Valid

ValidationDataPush ==
    /\ vd.pc = "loop"
    /\ loop_continues(vd)
    /\ vd' = validation_data_push(vd)
    /\ Others_Valid

ValidationDataReturn ==
    /\ vd.pc = "loop"
    /\ ~loop_continues(vd)
    /\ vd' = [vd EXCEPT !.pc = "done"]
    /\ Others_Valid

NextValid ==
    \/ ValidationDataCall
    \/ ValidationDataPush
    \/ ValidationDataReturn

(***************************************************************************)
(* UnitEntry.  ue holds the three cells (value, unit, dpi), the spinner's  *)
(* value and the dropdown's selected position.  GObject runs a property's  *)
(* notify handlers inside the set_property call that caused them; stack    *)
(* holds the handlers and resumptions still to run, innermost first, and   *)
(* an outside call is made only when it is empty.                          *)
(***************************************************************************)
MaxConversions == 1     \* convert_measurement calls per run

\* A handler or a resumption still to run, with what it was given.
Frame(h, arg) == [h |-> h, arg |-> arg]

MeasureUnits == {"Px", "Mm", "Cm"}
\* A value is a number given from outside or a conversion's result.
Lit(x) == [lit |-> x]
Values == {Lit(1), Lit(20)}
Dpis == {96, 300}

\* format::MeasureUnit::convert_measurement, kept as the term of its arguments.
convert_measurement(value, value_unit, value_dpi, desired_unit, desired_dpi) ==
    [convert |-> <<value, value_unit, value_dpi, desired_unit, desired_dpi>>]

\* The dropdown's adw::EnumListModel: the units' items, and an item whose nick the
\* selected handler does not name.
EnumListModel ==
    << [value |-> "Px", nick |-> "px"], [value |-> "Mm", nick |-> "mm"],
       [value |-> "Cm", nick |-> "cm"], [value |-> "Pt", nick |-> "pt"] >>

\* GTK_INVALID_LIST_POSITION: no position of the list.
INVALID_LIST_POSITION == Len(EnumListModel)

EnumListModel_find_position(value) ==
    IF \E i \in 1..Len(EnumListModel) : EnumListModel[i].value = value
    THEN (CHOOSE i \in 1..Len(EnumListModel) : EnumListModel[i].value = value) - 1
    ELSE INVALID_LIST_POSITION

EnumListModel_item(position) ==
    IF position + 1 \in 1..Len(EnumListModel) THEN Some(EnumListModel[position + 1]) ELSE None

UnitEntry_default ==
    [value |-> Lit(1), unit |-> "Px", dpi |-> 96, spinner |-> Lit(1), selected |-> 0]

\* set_property, lines 169-174.
set_property_value(u, value_) == IF value_ # u.value THEN [u EXCEPT !.value = value_] ELSE u

\* set_property, lines 175-183.
set_property_unit(u, unit) == IF unit # u.unit THEN [u EXCEPT !.unit = unit] ELSE u

\* The value bound to the spinner (lines 59-63): the source's notify::value sets the
\* target, and the binding ignores the notification its own write causes.
binding_to_spinner(u) == [u EXCEPT !.spinner = u.value]
binding_from_spinner(u) == set_property_value(u, u.spinner)

\* DropDown::set_selected: a write and a notify::selected only when the position changes.
set_selected_notifies(u, position) == position # u.selected

\* The notify::unit handler, lines 66-79.
on_notify_unit(u) ==
    LET position == EnumListModel_find_position(u.unit) IN
    [ue |-> [u EXCEPT !.selected = position],
     notify |-> IF set_selected_notifies(u, position) THEN <<Frame("notify::selected", NoArg)>> ELSE <<>>]

\* The nick match with two arms exchanged.
unit_of_nick_swapped(nick) ==
    CASE nick = "px" -> Some("Px")
      [] nick = "mm" -> Some("Cm")
      [] nick = "cm" -> Some("Mm")
      [] OTHER -> None

\* The nick match of the notify::selected handler, lines 91-102.
unit_of_nick(nick) ==
    CASE nick = "px" -> Some("Px")
      [] nick = "mm" -> Some("Mm")
      [] nick = "cm" -> Some("Cm")
      [] OTHER -> None

\* The notify::selected handler, lines 80-109.
on_notify_selected(u) ==
    LET item == EnumListModel_item(u.selected)
        unit == IF item.some THEN unit_of_nick(item.val.nick) ELSE None
    IN  IF unit.some
        THEN [ue |-> set_property_unit(u, unit.val), notify |-> <<Frame("notify::unit", NoArg)>>]
        ELSE [ue |-> u, notify |-> <<>>]

\* set_property "dpi" converting after the dpi cell has been written.
set_property_dpi_convert_late(u, dpi) ==
    set_property_value(u, convert_measurement(u.value, u.unit, dpi, u.unit, dpi))

\* set_property "dpi", lines 184-196, up to the nested set_value: the converted value
\* is stored and the write of the dpi cell is still to come.
set_property_dpi_convert(u, dpi) ==
    set_property_value(u, convert_measurement(u.value, u.unit, u.dpi, u.unit, dpi))

\* Line 194.
set_property_dpi_replace(u, dpi) == [u EXCEPT !.dpi = dpi]

Chain(op, arg, pre, len) == [op |-> op, arg |-> arg, pre |-> pre, len |-> len]

\* convert_measurement calls made so far: the depth of the value's term.
RECURSIVE conversions(_)
conversions(value) ==
    IF "lit" \in DOMAIN value THEN 0 ELSE 1 + conversions(value.convert[1])

Others_Unit == UNCHANGED <<stroke, last, edits, inputdata, ilast, vd>>

\* set_value, lines 243-245.
SetValue ==
    /\ stack = <<>>
    /\ \E value \in Values :
         /\ ue' = set_property_value(ue, value)
         /\ chain' = Chain("set_value", value, ue, 0)
    /\ stack' = <<Frame("notify::value", NoArg)>>
    /\ Others_Unit

\* set_unit, lines 254-256.
SetUnit ==
    /\ stack = <<>>
    /\ \E unit \in MeasureUnits :
         /\ ue' = set_property_unit(ue, unit)
         /\ chain' = Chain("set_unit", unit, ue, 0)
    /\ stack' = <<Frame("notify::unit", NoArg)>>
    /\ Others_Unit

\* set_dpi, lines 262-264, into set_property "dpi".
SetDpi ==
    /\ stack = <<>>
    /\ \E dpi \in Dpis :
         /\ chain' = Chain("set_dpi", dpi, ue, 0)
         /\ IF dpi # ue.dpi
            THEN /\ conversions(ue.value) < MaxConversions
                 /\ ue' = set_property_dpi_convert(ue, dpi)
                 /\ stack' = <<Frame("notify::value", NoArg), Frame("dpi.replace", dpi),
                              Frame("notify::dpi", NoArg)>>
            ELSE /\ ue' = ue
                 /\ stack' = <<Frame("notify::dpi", NoArg)>>
    /\ Others_Unit

\* convert_current_value, lines 277-287.
ConvertCurrentValue ==
    /\ stack = <<>>
    /\ conversions(ue.value) < MaxConversions
    /\ \E desired_unit \in MeasureUnits :
         LET converted_value ==
                 convert_measurement(ue.value, ue.unit, ue.dpi, desired_unit, ue.dpi)
         IN  /\ ue' = set_property_unit(ue, desired_unit)
             /\ chain' = Chain("convert_current_value", desired_unit, ue, 0)
             /\ stack' = <<Frame("notify::unit", NoArg), Frame("set_value", converted_value)>>
    /\ Others_Unit

\* The user picks another item of the dropdown.
UserSelects ==
    /\ stack = <<>>
    /\ \E position \in 0..(Len(EnumListModel) - 1) :
         /\ position # ue.selected
         /\ ue' = [ue EXCEPT !.selected = position]
         /\ chain' = Chain("select", position, ue, 0)
    /\ stack' = <<Frame("notify::selected", NoArg)>>
    /\ Others_Unit

\* The user types a value into the spinner.
UserSpins ==
    /\ stack = <<>>
    /\ \E value \in Values :
         /\ value # ue.spinner
         /\ ue' = [ue EXCEPT !.spinner = value]
         /\ chain' = Chain("spin", value, ue, 0)
    /\ stack' = <<Frame("spinner notify::value", NoArg)>>
    /\ Others_Unit

Ran == chain' = [chain EXCEPT !.len = chain.len + 1]

NotifyUnit ==
    /\ stack # <<>> /\ Head(stack).h = "notify::unit"
    /\ LET r == on_notify_unit(ue) IN
         /\ ue' = r.ue
         /\ stack' = r.notify \o Tail(stack)
    /\ Ran
    /\ Others_Unit

NotifySelected ==
    /\ stack # <<>> /\ Head(stack).h = "notify::selected"
    /\ LET r == on_notify_selected(ue) IN
         /\ ue' = r.ue
         /\ stack' = r.notify \o Tail(stack)
    /\ Ran
    /\ Others_Unit

NotifyValue ==
    /\ stack # <<>> /\ Head(stack).h = "notify::value"
    /\ ue' = binding_to_spinner(ue)
    /\ stack' = Tail(stack)
    /\ Ran
    /\ Others_Unit

NotifySpinner ==
    /\ stack # <<>> /\ Head(stack).h = "spinner notify::value"
    /\ ue' = binding_from_spinner(ue)
    /\ stack' = Tail(stack)
    /\ Ran
    /\ Others_Unit

\* No handler is connected to notify::dpi.
NotifyDpi ==
    /\ stack # <<>> /\ Head(stack).h = "notify::dpi"
    /\ stack' = Tail(stack)
    /\ UNCHANGED <<ue, chain>>
    /\ Others_Unit

\* set_property "dpi" resumes after set_value has returned.
ResumeSetDpi ==
    /\ stack # <<>> /\ Head(stack).h = "dpi.replace"
    /\ ue' = set_property_dpi_replace(ue, Head(stack).arg)
    /\ stack' = Tail(stack)
    /\ UNCHANGED chain
    /\ Others_Unit

\* convert_current_value resumes after set_unit has returned.
ResumeConvert ==
    /\ stack # <<>> /\ Head(stack).h = "set_value"
    /\ ue' = set_property_value(ue, Head(stack).arg)
    /\ stack' = <<Frame("notify::value", NoArg)>> \o Tail(stack)
    /\ UNCHANGED chain
    /\ Others_Unit

NextUnit ==
    \/ SetValue
    \/ SetUnit
    \/ SetDpi
    \/ ConvertCurrentValue
    \/ UserSelects
    \/ UserSpins
    \/ NotifyUnit
    \/ NotifySelected
    \/ NotifyValue
    \/ NotifySpinner
    \/ NotifyDpi
    \/ ResumeSetDpi
    \/ ResumeConvert

(***************************************************************************)
(* The specifications.  Each starts every part of the state and moves one. *)
(***************************************************************************)
vd_idle(r) ==
    [pc |-> "idle", rng |-> r, bounds |-> AABB(<<0, 0>>, <<0, 0>>), n |-> 0, i |-> 0,
     data_entries |-> <<>>]

Strokes ==
    {StrokeStyle(t, Variant(NewBox, c)) : t \in Variants, c \in Contents}
        \cup {StrokeStyle_default}

\* The state after construction: a stroke among strokes, InputData::default(), no
\* validation_data call running on a generator among rngs, UnitEntry::default().
Init(strokes, rngs) ==
    /\ stroke \in strokes
    /\ last = Call("new", NoArg, NoArg, <<>>, <<>>, <<>>)
    /\ edits = 0
    /\ inputdata = InputData_default
    /\ ilast = ICall("default", NoArg, InputData_default)
    /\ vd \in {vd_idle(r) : r \in rngs}
    /\ ue = UnitEntry_default
    /\ stack = <<>>
    /\ chain = Chain("new", NoArg, UnitEntry_default, 0)

SpecStroke == Init(Strokes, {0}) /\ [][NextStroke]_vars

SpecInput == Init({StrokeStyle_default}, {0}) /\ [][NextInput]_vars

SpecValid == Init({StrokeStyle_default}, 0..(RngMod - 1)) /\ [][NextValid]_vars

\* GObject runs the handlers of a notification, and what follows the call that caused
\* it, before the call returns: a handler that is due does run.
RunHandlers ==
    \/ NotifyUnit
    \/ NotifySelected
    \/ NotifyValue
    \/ NotifySpinner
    \/ NotifyDpi
    \/ ResumeSetDpi
    \/ ResumeConvert

SpecUnit ==
    Init({StrokeStyle_default}, {0}) /\ [][NextUnit]_vars /\ WF_vars(RunHandlers)

(***************************************************************************)
(* Properties of the stroke trait (checked under SpecStroke).              *)
(***************************************************************************)
MinOf(S) == CHOOSE x \in S : \A y \in S : x <= y
MaxOf(S) == CHOOSE x \in S : \A y \in S : x >= y

\* The smallest box containing the bounds of every fragment of a non-empty sequence.
smallest_box(svgs) ==
    LET I == 1..Len(svgs) IN
    AABB(<<MinOf({svgs[i].bounds.mins[1] : i \in I}), MinOf({svgs[i].bounds.mins[2] : i \in I})>>,
         <<MaxOf({svgs[i].bounds.maxs[1] : i \in I}), MaxOf({svgs[i].bounds.maxs[2] : i \in I})>>)

reordered(s, p) ==
    StrokeStyle(s.tag,
                Variant(s.inner.bounds,
                        Content(s.inner.content.fails,
                                [i \in 1..Len(s.inner.content.frags) |-> s.inner.content.frags[p[i]]])))

\* What the held variant generates at a zero offset.
svgs_at_zero == Variant_gen_svgs(stroke.inner, <<0, 0>>)

\* C1: gen_bounds returns None if and only if gen_svgs at a zero offset succeeds and
\* yields no fragment; a failed gen_svgs never ends in None.
C1_NoneOnlyForNoFragments ==
    last.op = "gen_bounds" =>
        (~last.ret.some <=> (svgs_at_zero.ok /\ Len(svgs_at_zero.val) = 0))

\* C2: when gen_svgs at a zero offset yields the fragments f1..fn, n >= 1, gen_bounds
\* returns Some(aabb_ceil(b)) for b the smallest box containing every fragment's
\* bounds; the result contains each fragment's bounds, in whatever order the
\* fragments come.
C2_GenBoundsIsCeilOfUnion ==
    (last.op = "gen_bounds" /\ svgs_at_zero.ok /\ Len(svgs_at_zero.val) >= 1) =>
        /\ last.ret = Some(aabb_ceil(smallest_box(svgs_at_zero.val)))
        /\ \A i \in 1..Len(svgs_at_zero.val) : contains(last.ret.val, svgs_at_zero.val[i].bounds)
        /\ \A p \in Permutations(1..Len(svgs_at_zero.val)) :
             gen_bounds(reordered(stroke, p)).ret = last.ret

\* C2's case: two fragments neither of which holds the other, and a union that the
\* ceiling grows.
C2_Witness ==
    /\ last.op = "gen_bounds" /\ svgs_at_zero.ok /\ Len(svgs_at_zero.val) = 2
    /\ last.ret.some
    /\ last.ret.val # aabb_ceil(svgs_at_zero.val[1].bounds)
    /\ last.ret.val # aabb_ceil(svgs_at_zero.val[2].bounds)
    /\ last.ret.val # smallest_box(svgs_at_zero.val)

\* C3 as stated: after gen_bounds has returned Some(b), bounds() returns b.
C3_CacheAccurateAfterGenBounds ==
    (last.op = "gen_bounds" /\ last.ret.some) => StrokeStyle_bounds(stroke).ret = last.ret.val

\* C3, amended: gen_bounds does not refresh the cache.  A bounds() call made directly
\* after gen_bounds returns the cached bounds as they were before the call, whatever
\* gen_bounds returned.
C3_GenBoundsLeavesCache ==
    [][last'.op = "gen_bounds" =>
         StrokeStyle_bounds(stroke').ret = StrokeStyle_bounds(stroke).ret]_vars

\* C3's case: gen_bounds has returned Some(b) on a stroke whose cache holds another box.
C3_Witness ==
    /\ last.op = "gen_bounds" /\ last.ret.some
    /\ StrokeStyle_bounds(stroke).ret # last.ret.val

\* C6: gen_image returns gen_svgs' error when gen_svgs fails, and then neither wrap_svg
\* nor the backend has been called; it returns the backend's error when the backend
\* fails; it returns Ok only when both succeed.
C6_ErrorsSurface ==
    last.op = "gen_image" =>
        /\ ~svgs_at_zero.ok =>
             /\ last.ret = Err(svgs_at_zero.err)
             /\ last.wraps = <<>>
             /\ last.renders = <<>>
        /\ (svgs_at_zero.ok /\ last.arg[2] = "fails") => last.ret = Err(BackendError)
        /\ last.ret.ok <=> (svgs_at_zero.ok /\ last.arg[2] = "ok")

\* C6's case: gen_image on a stroke whose gen_svgs fails, with a backend that would
\* have succeeded.
C6_Witness ==
    /\ last.op = "gen_image" /\ ~svgs_at_zero.ok /\ last.arg[2] = "ok"
    /\ ~last.ret.ok

FacadeOps == {"bounds", "set_bounds", "translate", "resize", "gen_svgs"}

\* C7: a stroke holds one of the five variants; each facade call makes exactly one
\* call, of the same method with the same argument, on the variant held, has that
\* call's effect and result, and leaves the variant tag as it was.
C7_ForwardedToHeldVariant ==
    [][/\ stroke.tag \in Variants
       /\ stroke'.tag = stroke.tag
       /\ last'.op \in FacadeOps => last'.fwd = <<Fwd(stroke.tag, last'.op, last'.arg)>>
       /\ last'.op = "bounds" =>
            stroke' = stroke /\ last'.ret = Variant_bounds(stroke.inner)
       /\ last'.op = "set_bounds" =>
            stroke'.inner = Variant_set_bounds(stroke.inner, last'.arg)
       /\ last'.op = "translate" =>
            stroke'.inner = Variant_translate(stroke.inner, last'.arg)
       /\ last'.op = "resize" =>
            stroke'.inner = Variant_resize(stroke.inner, last'.arg)
       /\ last'.op = "gen_svgs" =>
            stroke' = stroke /\ last'.ret = Variant_gen_svgs(stroke.inner, last'.arg)]_vars

\* C7's case: a translate by a non-zero offset has reached a VectorImage.
C7_Witness ==
    /\ last.op = "translate" /\ last.arg # <<0, 0>>
    /\ stroke.tag = "VectorImage"
    /\ last.fwd = <<Fwd("VectorImage", "translate", last.arg)>>

\* C8: a gen_image that succeeds has generated the fragments at a zero offset, has
\* replaced each payload by wrap_svg(payload, Some(bounds()), Some(bounds()), true,
\* false), keeping the fragments' number, order and bounds, has called the backend
\* once, with the zoom asked for, the wrapped fragments and bounds(), and has left
\* the stroke as it was.
C8_GenImagePipeline ==
    [][(last'.op = "gen_image" /\ last'.ret.ok) =>
         LET frags == Variant_gen_svgs(stroke.inner, <<0, 0>>).val
             b == Variant_bounds(stroke.inner)
         IN  /\ stroke' = stroke
             /\ Len(last'.renders) = 1
             /\ last'.renders[1].zoom = last'.arg[1]
             /\ last'.renders[1].bounds = b
             /\ Len(last'.renders[1].svgs) = Len(frags)
             /\ \A i \in 1..Len(frags) :
                  /\ last'.renders[1].svgs[i].bounds = frags[i].bounds
                  /\ last'.renders[1].svgs[i].svg_data =
                        wrap_svg(frags[i].svg_data, Some(b), Some(b), TRUE, FALSE)
             /\ last'.wraps =
                  [i \in 1..Len(frags) |-> <<frags[i].svg_data, Some(b), Some(b), TRUE, FALSE>>]
             /\ last'.fwd[1] = Fwd(stroke.tag, "gen_svgs", <<0, 0>>)]_vars

\* C8's case: a successful gen_image of two different fragments on a stroke whose
\* cached bounds are not the bounds gen_bounds computes.
C8_Witness ==
    /\ last.op = "gen_image" /\ last.ret.ok
    /\ Len(last.renders[1].svgs) = 2
    /\ last.renders[1].svgs[1] # last.renders[1].svgs[2]
    /\ gen_bounds(stroke).ret # Some(last.renders[1].bounds)

(***************************************************************************)
(* Properties of InputData (SpecInput) and validation_data (SpecValid).    *)
(***************************************************************************)
\* f64::max and f64::min: the other operand when one is NaN.
f64_max(a, b) == IF a.kind = "nan" THEN b ELSE IF b.kind = "nan" THEN a
                 ELSE IF f64_lt(a, b) THEN b ELSE a
f64_min(a, b) == IF a.kind = "nan" THEN b ELSE IF b.kind = "nan" THEN a
                 ELSE IF f64_lt(b, a) THEN b ELSE a
f64_le(a, b) == f64_lt(a, b) \/ (a.kind # "nan" /\ a = b)

\* C4: after new(pos, p) or set_pressure(p) the stored pressure is min(max(p, 0.0), 1.0)
\* and lies in [0.0, 1.0]; set_pos leaves the pressure and set_pressure the position.
C4_PressureClamped ==
    /\ ilast.op = "new" =>
         /\ inputdata.pressure =
               f64_min(f64_max(ilast.arg[2], Fin(PRESSURE_MIN)), Fin(PRESSURE_MAX))
         /\ inputdata.pos = ilast.arg[1]
    /\ ilast.op = "set_pressure" =>
         /\ inputdata.pressure =
               f64_min(f64_max(ilast.arg, Fin(PRESSURE_MIN)), Fin(PRESSURE_MAX))
         /\ inputdata.pos = ilast.pre.pos
    /\ ilast.op = "set_pos" =>
         /\ inputdata.pos = ilast.arg
         /\ inputdata.pressure = ilast.pre.pressure
    /\ f64_le(Fin(PRESSURE_MIN), inputdata.pressure)
    /\ f64_le(inputdata.pressure, Fin(PRESSURE_MAX))

\* C5: validation_data returns between 0 and 20 elements.
C5_ZeroToTwentyEntries ==
    vd.pc = "done" => Len(vd.data_entries) \in 0..MaxEntriesSample

(***************************************************************************)
(* Properties of UnitEntry (SpecUnit).                                     *)
(***************************************************************************)
KnownNicks == {"px", "mm", "cm"}

selected_matches_unit(u) == u.selected = EnumListModel_find_position(u.unit)

\* The chain of handlers a set_unit call or a selection by the user has started.
InUnitChain == chain.op \in {"set_unit", "select"}

C9_ChainState ==
    /\ InUnitChain => chain.len + Len(stack) <= 3
    /\ (chain.op = "set_unit" /\ stack = <<>>) =>
         ue.unit = chain.arg /\ selected_matches_unit(ue)
    /\ (chain.op = "select" /\ EnumListModel[chain.arg + 1].nick \in KnownNicks /\ stack = <<>>) =>
         ue.selected = chain.arg /\ selected_matches_unit(ue)
    /\ (chain.op = "select" /\ EnumListModel[chain.arg + 1].nick \notin KnownNicks) =>
         ue.unit = chain.pre.unit

\* C9: the handlers that a set_unit call, or the user's selection of an item, sets off
\* run at most three times and then stop; when they have stopped after set_unit(u) or
\* after the selection of an item with nick px, mm or cm, the unit is the one asked
\* for and the dropdown's selected item is the unit's; the selection of an item with
\* another nick leaves the unit as it was.
C9_UnitDropdownSync ==
    /\ []C9_ChainState
    /\ (InUnitChain /\ stack # <<>>) ~> (stack = <<>>)

\* C9's case: set_unit on an entry whose dropdown matched its unit has changed the
\* unit, and the chain it set off has run its three handlers and stopped.
C9_Witness ==
    /\ chain.op = "set_unit" /\ stack = <<>> /\ chain.len = 3
    /\ selected_matches_unit(chain.pre)
    /\ chain.pre.unit # ue.unit
    /\ selected_matches_unit(ue)

\* A step of the set_dpi call itself: from no handler due, into set_property "dpi".
SetDpiStep == stack = <<>> /\ stack' # <<>> /\ chain'.op = "set_dpi"

converted(u, dpi) == convert_measurement(u.value, u.unit, u.dpi, u.unit, dpi)

\* C10: set_dpi(d) with d other than the stored dpi stores
\* convert_measurement(value, unit, old dpi, unit, d) as the value while the dpi cell
\* still holds the old dpi, and writes d to the dpi cell only afterwards, the unit as
\* it was; set_dpi(d) with d the stored dpi changes nothing; no other call changes
\* the dpi.
C10_SetDpiConverts ==
    [][/\ (SetDpiStep /\ chain'.arg # ue.dpi) =>
            /\ ue'.value = converted(ue, chain'.arg)
            /\ ue'.dpi = ue.dpi
            /\ ue'.unit = ue.unit
       /\ (SetDpiStep /\ chain'.arg = ue.dpi) => ue' = ue
       /\ ue'.dpi # ue.dpi =>
            /\ chain.op = "set_dpi" /\ chain' = chain
            /\ ue'.dpi = chain.arg
            /\ ue.value = converted(chain.pre, chain.arg)
            /\ ue' = [ue EXCEPT !.dpi = chain.arg]
       /\ (chain'.op = "set_dpi" /\ stack' = <<>>) =>
            /\ ue'.dpi = chain'.arg
            /\ ue'.unit = chain'.pre.unit
            /\ ue'.value = IF chain'.arg # chain'.pre.dpi
                           THEN converted(chain'.pre, chain'.arg)
                           ELSE chain'.pre.value
       /\ chain'.op # "set_dpi" => ue'.dpi = ue.dpi]_vars

\* C10's case: a set_dpi with another dpi, on an entry in millimetres, has returned.
C10_Witness ==
    /\ chain.op = "set_dpi" /\ stack = <<>>
    /\ chain.arg # chain.pre.dpi
    /\ chain.pre.unit = "Mm"
    /\ ue.dpi = chain.arg
    /\ ue.value = converted(chain.pre, chain.arg)

====
